---- MODULE Spec2Model ----
(***************************************************************************)
(* A model of the pack registry (packs/pack_set.rs), the violation ledger  *)
(* flattening (packs.rs, packs/package_todo.rs) and the reference          *)
(* extraction pipeline (packs/reference_extractor.rs).                     *)
(*                                                                         *)
(* Strings are sequences of byte values (ASCII codes), so that String::len *)
(* is Len, String::cmp is the lexicographic byte order and str::contains   *)
(* is substring search.  Paths are sequences of components, each component *)
(* a string, so that Path::starts_with compares whole components.          *)
(***************************************************************************)
EXTENDS Integers, Sequences, FiniteSets, TLC

VARIABLES
    \* ---- PackSet (packs/pack_set.rs) ----
    input_packs,     \* the HashSet<Pack> handed to PackSet::build
    packs,           \* PackSet.packs
    indexed_packs,   \* PackSet.indexed_packs
    built,           \* TRUE once PackSet::build has returned
    file_query,      \* the argument of the last PackSet::for_file call (Option)
    file_answer,     \* its return value (Option<String>)
    \* ---- Pack::all_violations (packs.rs) ----
    pack_name,       \* Pack.name of the pack whose ledger is flattened
    package_todo,    \* Pack.package_todo.violations_by_defining_pack
    violations,      \* the Vec returned by the last all_violations call (Option)
    \* ---- get_all_references (packs/reference_extractor.rs) ----
    experimental_parser,       \* configuration.experimental_parser
    included_files,            \* configuration.included_files
    absolute_paths,            \* the input set of paths to check
    pc,                        \* "start", "resolving" or "done"
    processed_files_to_check,  \* the Vec<ProcessedFile> handed to par_iter
    units,                     \* the parallel work units and their accumulators
    result,                    \* the anyhow::Result returned (Option)
    extracted,                 \* files a Processed File was obtained for
    resolved,                  \* files whose references were all resolved
    failed,                    \* TRUE once an extraction or a resolution failed
    reductions,                \* number of try_reduce combinations so far
    \* ---- PackageNames (packs/reference_extractor.rs) ----
    names,           \* PackageNames.names (Option: None before new())
    name_query,      \* the argument of the last find_pack_name call (Option)
    name_answer      \* its return value (Option<String>)

packSetVars ==
    <<input_packs, packs, indexed_packs, built, file_query, file_answer>>
ledgerVars == <<pack_name, package_todo, violations>>
referenceVars ==
    <<experimental_parser, included_files, absolute_paths, pc,
      processed_files_to_check, units, result, extracted, resolved, failed,
      reductions>>
packageNamesVars == <<names, name_query, name_answer>>
vars == <<packSetVars, ledgerVars, referenceVars, packageNamesVars>>

----------------------------------------------------------------------------
\* Bounds of the model.
MaxPacks == 3        \* most packs in the input set of PackSet::build
MaxDepth == 3        \* most components in a pack's relative path
MaxListLen == 2      \* most violation types, and most files, of a group
MaxFiles == 3        \* number of source files of the project

----------------------------------------------------------------------------
\* Option<T>
None == <<>>
Some(x) == <<x>>

\* Strings.
Slash == <<47>>                      \* "/"
StrA == <<97>>                       \* "a"
StrAB == <<97, 98>>                  \* "ab"

RECURSIVE StrCmp(_, _)
\* <String as Ord>::cmp: lexicographic on bytes; -1 less, 0 equal, 1 greater.
StrCmp(s, t) ==
    IF s = <<>> /\ t = <<>> THEN 0
    ELSE IF s = <<>> THEN -1
    ELSE IF t = <<>> THEN 1
    ELSE IF Head(s) < Head(t) THEN -1
    ELSE IF Head(s) > Head(t) THEN 1
    ELSE StrCmp(Tail(s), Tail(t))

\* <usize as Ord>::cmp
IntCmp(m, n) == IF m < n THEN -1 ELSE IF m > n THEN 1 ELSE 0

RECURSIVE JoinPath(_)
\* The text of a relative path: its components separated by "/".
JoinPath(p) ==
    IF p = <<>> THEN <<>>
    ELSE IF Len(p) = 1 THEN p[1]
    ELSE p[1] \o Slash \o JoinPath(Tail(p))

\* Sets of permutations and of bounded subsets.
RECURSIVE Perms(_)
Perms(S) ==
    IF S = {} THEN {<<>>}
    ELSE UNION {{<<x>> \o p : p \in Perms(S \ {x})} : x \in S}

RECURSIVE SubsetsUpTo(_, _)
SubsetsUpTo(S, k) ==
    IF k = 0 THEN {{}}
    ELSE LET smaller == SubsetsUpTo(S, k - 1)
         IN  smaller \cup {T \cup {x} : T \in smaller, x \in S}

Range(s) == {s[i] : i \in DOMAIN s}

SeqsUpTo(S, n) == UNION {[1..k -> S] : k \in 0..n}

----------------------------------------------------------------------------
\* Paths and packs.
Components == {StrA, StrAB}
AbsoluteRoot == << <<114>> >>         \* the project's absolute root, "/r"
PackageYml == <<121>>                \* file name of a pack's manifest
SourceFile == <<120>>                \* file name of a source file, "x"
\* The directories of the project, as relative paths of lo to hi components:
\* the first three levels have a directory of either name, deeper levels one.
ComponentsAt(level) == IF level <= 3 THEN Components ELSE {StrA}
PathsOfDepth(lo, hi) ==
    UNION {{p \in [1..n -> Components] : \A i \in 1..n : p[i] \in ComponentsAt(i)} :
              n \in lo..hi}
RelativePaths == PathsOfDepth(1, MaxDepth)
\* The source files: one in the root and one in every directory.
RelativeFilePaths == {dir \o <<SourceFile>> : dir \in PathsOfDepth(0, MaxDepth)}
FilePaths == {AbsoluteRoot \o p : p \in RelativeFilePaths}
DependencySets == {{}, {StrAB}}

\* struct Pack: name is the relative path's text, yml the manifest's location.
\* Of the fields that registry code never reads, dependencies stands for all.
Pack(relative_path, dependencies) ==
    [name |-> JoinPath(relative_path),
     yml |-> AbsoluteRoot \o relative_path \o <<PackageYml>>,
     relative_path |-> relative_path,
     dependencies |-> dependencies]

\* The packs an input set is drawn from.  Records are compared field by
\* field, as the derived PartialEq/Eq of Pack does; only packs at depth 1
\* come with two dependency sets.
PackUniverse ==
    {Pack(rp, {}) : rp \in RelativePaths}
        \cup {Pack(rp, d) : rp \in PathsOfDepth(1, 1), d \in DependencySets}

\* Parent with the call of parent() left out.
ParentForgotten(path) == path

\* Path::parent
Parent(path) == SubSeq(path, 1, Len(path) - 1)

\* starts_with on the text of the two paths instead of their components.
PathStartsWithText(path, base) ==
    LET p == JoinPath(path)
        b == JoinPath(base)
    IN  Len(b) <= Len(p) /\ SubSeq(p, 1, Len(b)) = b

RECURSIVE PathStartsWith(_, _)
\* Path::starts_with: base's components are the leading components of path.
PathStartsWith(path, base) ==
    IF base = <<>> THEN TRUE
    ELSE IF path = <<>> THEN FALSE
    ELSE Head(path) = Head(base) /\ PathStartsWith(Tail(path), Tail(base))

----------------------------------------------------------------------------
\* PackSet::build

\* The comparator with the two lengths exchanged: shorter names first.
PackCmpShortestFirst(packa, packb) ==
    LET byLen == IntCmp(Len(packa.name), Len(packb.name))
    IN  IF byLen # 0 THEN byLen ELSE StrCmp(packa.name, packb.name)

\* The comparator of sorted_by: longer names first, then alphabetical.
PackCmp(packa, packb) ==
    LET byLen == IntCmp(Len(packb.name), Len(packa.name))
    IN  IF byLen # 0 THEN byLen ELSE StrCmp(packa.name, packb.name)

RECURSIVE InsertSorted(_, _)
\* Place x after every element that does not compare greater than it.
InsertSorted(sorted, x) ==
    IF sorted = <<>> THEN <<x>>
    ELSE IF PackCmp(Head(sorted), x) = 1 THEN <<x>> \o sorted
    ELSE <<Head(sorted)>> \o InsertSorted(Tail(sorted), x)

RECURSIVE SortedBy(_)
\* Itertools::sorted_by: a stable sort of the iteration sequence.
SortedBy(iteration) ==
    IF iteration = <<>> THEN <<>>
    ELSE InsertSorted(SortedBy(SubSeq(iteration, 1, Len(iteration) - 1)),
                      iteration[Len(iteration)])

RECURSIVE IndexPacks(_)
\* The loop of HashMap::insert over the sorted packs: a later insert of the
\* same key replaces the earlier value.
IndexPacks(sorted) ==
    IF sorted = <<>> THEN <<>>
    ELSE LET last == sorted[Len(sorted)]
             rest == IndexPacks(SubSeq(sorted, 1, Len(sorted) - 1))
         IN  [n \in (DOMAIN rest) \cup {last.name} |->
                 IF n = last.name THEN last ELSE rest[n]]

\* PackSet::build(packs), called once when the configuration is loaded: the
\* set is iterated in an arbitrary order.
Build ==
    /\ ~built
    /\ \E sorted \in {SortedBy(iteration) : iteration \in Perms(input_packs)} :
         /\ packs' = sorted
         /\ indexed_packs' = IndexPacks(sorted)
    /\ built' = TRUE
    /\ file_query' = None
    /\ file_answer' = None
    /\ names' = None
    /\ name_query' = None
    /\ name_answer' = None
    /\ UNCHANGED <<input_packs, ledgerVars, referenceVars>>

RECURSIVE ForFileFrom(_, _)
\* The loop of PackSet::for_file over the remaining packs.
ForFileFrom(remaining, absolute_file_path) ==
    IF remaining = <<>> THEN None
    ELSE IF PathStartsWith(absolute_file_path, Parent(Head(remaining).yml))
         THEN Some(Head(remaining).name)
         ELSE ForFileFrom(Tail(remaining), absolute_file_path)

for_file(absolute_file_path) == ForFileFrom(packs, absolute_file_path)

\* A call of PackSet::for_file on a built registry.  for_file leaves the
\* registry as it is, so one call per registry shows every answer it gives.
ForFile ==
    /\ built
    /\ file_query = None
    /\ \E path \in FilePaths :
         /\ file_query' = Some(path)
         /\ file_answer' = for_file(path)
    /\ UNCHANGED <<input_packs, packs, indexed_packs, built, ledgerVars, referenceVars,
                   packageNamesVars>>

\* The variables of the parts a specification leaves alone.
IdlePackSet ==
    /\ input_packs = {}
    /\ packs = <<>>
    /\ indexed_packs = <<>>
    /\ built = FALSE
    /\ file_query = None
    /\ file_answer = None

IdleLedger ==
    /\ pack_name = ""
    /\ package_todo = <<>>
    /\ violations = None

IdleReferences ==
    /\ experimental_parser = FALSE
    /\ included_files = {}
    /\ absolute_paths = {}
    /\ pc = "idle"
    /\ processed_files_to_check = <<>>
    /\ units = <<>>
    /\ result = None
    /\ extracted = {}
    /\ resolved = {}
    /\ failed = FALSE
    /\ reductions = 0

IdlePackageNames ==
    /\ names = None
    /\ name_query = None
    /\ name_answer = None

InitPackSet ==
    /\ input_packs \in SubsetsUpTo(PackUniverse, MaxPacks)
    /\ packs = <<>>
    /\ indexed_packs = <<>>
    /\ built = FALSE
    /\ file_query = None
    /\ file_answer = None
    /\ IdleLedger
    /\ IdleReferences
    /\ IdlePackageNames

NextPackSet == Build \/ ForFile

SpecPackSet == InitPackSet /\ [][NextPackSet]_vars

----------------------------------------------------------------------------
\* Pack::all_violations over the ledger of packs/package_todo.rs

ViolationTypes == {"dependency", "privacy"}
LedgerFiles == {"packs/foo/app/services/foo.rb", "packs/foo/app/models/foo.rb"}
\* The key sets a ledger is drawn from, as (defining pack, constant) pairs:
\* no entry, one entry, two constants of one defining pack, one constant in
\* each of two defining packs (of the same or of another name).
LedgerKeySets ==
    {{},
     {<<"packs/bar", "::Bar">>},
     {<<"packs/bar", "::Bar">>, <<"packs/bar", "::Baz">>},
     {<<"packs/bar", "::Bar">>, <<"packs/baz", "::Bar">>},
     {<<"packs/bar", "::Baz">>, <<"packs/baz", "::Bar">>}}
PackNames == {"packs/foo"}

\* struct ViolationGroup
ViolationGroups ==
    [violation_types : SeqsUpTo(ViolationTypes, MaxListLen),
     files : SeqsUpTo(LedgerFiles, MaxListLen)]

\* struct PackageTodo: HashMap<String, HashMap<String, ViolationGroup>>,
\* here the map with the given keys and groups.
PackageTodo(keys, group) ==
    [d \in {k[1] : k \in keys} |->
        [c \in {k[2] : k \in {e \in keys : e[1] = d}} |-> group[<<d, c>>]]]

\* The entries of a ledger, as (defining pack, constant) pairs.
Entries(todo) == UNION {{<<d, c>> : c \in DOMAIN todo[d]} : d \in DOMAIN todo}

\* An order in which the two nested HashMap iterations can visit the
\* entries: all constants of one defining pack, then those of the next.
NestedIterationOrders(todo) ==
    {order \in Perms(Entries(todo)) :
        \A i, j, k \in DOMAIN order :
            (i < j /\ j < k /\ order[i][1] = order[k][1])
                => order[j][1] = order[i][1]}

\* The identifier with the two pack names exchanged.
ViolationIdentifierSwapped(violation_type, file, constant_name, referencing, defining) ==
    [violation_type |-> violation_type,
     file |-> file,
     constant_name |-> constant_name,
     referencing_pack_name |-> defining,
     defining_pack_name |-> referencing]

\* struct ViolationIdentifier
ViolationIdentifier(violation_type, file, constant_name, referencing, defining) ==
    [violation_type |-> violation_type,
     file |-> file,
     constant_name |-> constant_name,
     referencing_pack_name |-> referencing,
     defining_pack_name |-> defining]

RECURSIVE ForEachFile(_, _, _, _, _)
\* The innermost loop: one identifier per file of the group.
ForEachFile(files, violation_type, constant_name, referencing, defining) ==
    IF files = <<>> THEN <<>>
    ELSE <<ViolationIdentifier(violation_type, Head(files), constant_name,
                               referencing, defining)>>
         \o ForEachFile(Tail(files), violation_type, constant_name,
                        referencing, defining)

RECURSIVE ForEachViolationType(_, _, _, _, _)
\* The loop over the group's violation types.
ForEachViolationType(types, files, constant_name, referencing, defining) ==
    IF types = <<>> THEN <<>>
    ELSE ForEachFile(files, Head(types), constant_name, referencing, defining)
         \o ForEachViolationType(Tail(types), files, constant_name,
                                 referencing, defining)

RECURSIVE ForEachEntry(_, _, _)
\* The two outer loops, visiting the entries in the given order.
ForEachEntry(order, todo, self_name) ==
    IF order = <<>> THEN <<>>
    ELSE LET defining_pack_name == Head(order)[1]
             constant_name == Head(order)[2]
             violation_group == todo[defining_pack_name][constant_name]
         IN  ForEachViolationType(violation_group.violation_types,
                                  violation_group.files, constant_name,
                                  self_name, defining_pack_name)
             \o ForEachEntry(Tail(order), todo, self_name)

\* Pack::all_violations(&self)
AllViolations ==
    /\ \E order \in NestedIterationOrders(package_todo) :
         violations' = Some(ForEachEntry(order, package_todo, pack_name))
    /\ UNCHANGED <<pack_name, package_todo, packSetVars, referenceVars,
                   packageNamesVars>>

\* A pack with a ledger read from disk.
InitLedger ==
    /\ pack_name \in PackNames
    /\ \E keys \in LedgerKeySets :
         \E group \in [keys -> ViolationGroups] :
             package_todo = PackageTodo(keys, group)
    /\ violations = None
    /\ IdlePackSet
    /\ IdleReferences
    /\ IdlePackageNames

NextLedger == AllViolations

SpecLedger == InitLedger /\ [][NextLedger]_vars

----------------------------------------------------------------------------
\* get_all_references

Files == 1..MaxFiles

\* The Unresolved References the parser finds in a file: none, one or two.
UnresolvedReferences(file) == [i \in 1..(file % 3) |-> <<file, i>>]

\* struct ProcessedFile
ProcessedFile(file) ==
    [absolute_path |-> file,
     unresolved_references |-> UnresolvedReferences(file)]

\* The References a successful Reference::from_unresolved_reference returns
\* for an Unresolved Reference: none, one or two candidates.
FromUnresolvedReference(unresolved_ref, absolute_path) ==
    [k \in 1..((absolute_path + unresolved_ref[2]) % 3) |->
        [relative_referencing_file |-> absolute_path,
         unresolved |-> unresolved_ref[2],
         candidate |-> k]]

\* Result<Vec<Reference>>
Ok(refs) == [ok |-> TRUE, refs |-> refs]
Err == [ok |-> FALSE, refs |-> <<>>]

\* The ways par_iter can split a Vec into contiguous non-empty pieces, each
\* folded by one work unit.
RECURSIVE Splits(_)
Splits(files) ==
    IF files = <<>> THEN {<<>>}
    ELSE UNION {{<<SubSeq(files, 1, n)>> \o rest :
                    rest \in Splits(SubSeq(files, n + 1, Len(files)))} :
                n \in 1..Len(files)}

\* A work unit of try_fold: the files it still has to fold and its
\* accumulator, Vec::new() at the start.
WorkUnit(files) == [remaining |-> files, acc |-> Ok(<<>>)]

RECURSIVE ResolveAll(_, _, _)
\* The for loop of the fold closure from the given Unresolved Reference on,
\* every call of from_unresolved_reference succeeding.
ResolveAll(unresolved, absolute_path, acc) ==
    IF unresolved = <<>> THEN acc
    ELSE ResolveAll(Tail(unresolved), absolute_path,
                    acc \o FromUnresolvedReference(Head(unresolved), absolute_path))

\* The closure with a failed resolution skipped instead of returned.
FoldFileSkippingErrors(acc, processed_file, fail_at) ==
    Ok(ResolveAll(processed_file.unresolved_references,
                  processed_file.absolute_path, acc))

\* The closure of try_fold on one file; fail_at is the position of the
\* Unresolved Reference whose resolution fails, 0 when none does.
FoldFile(acc, processed_file, fail_at) ==
    IF fail_at = 0
    THEN Ok(ResolveAll(processed_file.unresolved_references,
                       processed_file.absolute_path, acc))
    ELSE Err

\* The closure with the other vector dropped.
ReduceKeepFirst(acc, vec) == acc

\* The closure of try_reduce: acc.append(&mut vec).
ReduceAppend(acc, vec) == acc \o vec

\* try_reduce on two neighbouring results: an error of either is the result.
TryReduce(left, right) ==
    IF left.ok /\ right.ok THEN Ok(ReduceAppend(left.refs, right.refs))
    ELSE Err

\* process_files_with_cache(paths): one Processed File per path, in some
\* order, unless the extraction of a file fails.
ProcessFilesWithCache(paths) == Perms(paths)

\* The Processed Files the experimental branch keeps for checking.
FilterToCheck(all_processed_files, paths) ==
    SelectSeq(all_processed_files, LAMBDA file : file \in paths)

\* The run ends with the error of process_files_with_cache.
ExtractionFails ==
    /\ result' = Some(Err)
    /\ failed' = TRUE
    /\ pc' = "done"
    /\ UNCHANGED <<processed_files_to_check, units, extracted, resolved,
                   reductions>>

\* The fan-out of par_iter over the files to check.
StartResolving(to_check) ==
    /\ processed_files_to_check' = to_check
    /\ \E split \in Splits(to_check) :
         units' = [i \in DOMAIN split |-> WorkUnit(split[i])]
    /\ pc' = "resolving"
    /\ UNCHANGED <<result, resolved, failed, reductions>>

\* The branch for the experimental parser: every included file is processed,
\* and the files to check are those of them that are in absolute_paths.
ObtainExperimental ==
    /\ pc = "start"
    /\ experimental_parser
    /\ \/ /\ included_files # {}
          /\ ExtractionFails
       \/ \E all_processed_files \in ProcessFilesWithCache(included_files) :
            /\ extracted' = included_files
            /\ StartResolving(FilterToCheck(all_processed_files, absolute_paths))
    /\ UNCHANGED <<experimental_parser, included_files, absolute_paths,
                   packSetVars, ledgerVars, packageNamesVars>>

\* The branch for the zeitwerk resolver: the input paths are processed.
ObtainZeitwerk ==
    /\ pc = "start"
    /\ ~experimental_parser
    /\ \/ /\ absolute_paths # {}
          /\ ExtractionFails
       \/ \E processed_files \in ProcessFilesWithCache(absolute_paths) :
            /\ extracted' = absolute_paths
            /\ StartResolving(processed_files)
    /\ UNCHANGED <<experimental_parser, included_files, absolute_paths,
                   packSetVars, ledgerVars, packageNamesVars>>

\* A work unit folds its next file.
Fold ==
    /\ pc = "resolving"
    /\ \E u \in DOMAIN units :
         /\ units[u].remaining # <<>>
         /\ units[u].acc.ok
         /\ LET file == ProcessedFile(Head(units[u].remaining))
            IN  \E fail_at \in 0..Len(file.unresolved_references) :
                  LET folded == FoldFile(units[u].acc.refs, file, fail_at)
                  IN  /\ units' = [units EXCEPT
                                     ![u].remaining =
                                         IF folded.ok THEN Tail(@) ELSE <<>>,
                                     ![u].acc = folded]
                      /\ failed' = (failed \/ fail_at # 0)
                      /\ resolved' = IF fail_at = 0
                                     THEN resolved \cup {file.absolute_path}
                                     ELSE resolved
    /\ UNCHANGED <<experimental_parser, included_files, absolute_paths, pc,
                   processed_files_to_check, result, extracted, reductions,
                   packSetVars, ledgerVars, packageNamesVars>>

\* After an error in some work unit, another unit stops before its next file.
ShortCircuit ==
    /\ pc = "resolving"
    /\ \E u, e \in DOMAIN units :
         /\ ~units[e].acc.ok
         /\ units[u].remaining # <<>>
         /\ units' = [units EXCEPT ![u].remaining = <<>>]
    /\ UNCHANGED <<experimental_parser, included_files, absolute_paths, pc,
                   processed_files_to_check, result, extracted, resolved,
                   failed, reductions, packSetVars, ledgerVars, packageNamesVars>>

\* try_reduce combines the results of two neighbouring finished work units.
Reduce ==
    /\ pc = "resolving"
    /\ \E u \in DOMAIN units :
         /\ u + 1 \in DOMAIN units
         /\ units[u].remaining = <<>>
         /\ units[u + 1].remaining = <<>>
         /\ units' =
              SubSeq(units, 1, u - 1)
                  \o <<[remaining |-> <<>>,
                        acc |-> TryReduce(units[u].acc, units[u + 1].acc)]>>
                  \o SubSeq(units, u + 2, Len(units))
    /\ reductions' = reductions + 1
    /\ UNCHANGED <<experimental_parser, included_files, absolute_paths, pc,
                   processed_files_to_check, result, extracted, resolved,
                   failed, packSetVars, ledgerVars, packageNamesVars>>

\* get_all_references returns: the one remaining result, or the identity
\* Vec::new() of try_reduce when there was no file to check.
Return ==
    /\ pc = "resolving"
    /\ \/ /\ units = <<>>
          /\ result' = Some(Ok(<<>>))
       \/ /\ Len(units) = 1
          /\ units[1].remaining = <<>>
          /\ result' = Some(units[1].acc)
    /\ pc' = "done"
    /\ UNCHANGED <<experimental_parser, included_files, absolute_paths,
                   processed_files_to_check, units, extracted, resolved,
                   failed, reductions, packSetVars, ledgerVars, packageNamesVars>>

InitReferences ==
    /\ experimental_parser \in BOOLEAN
    /\ included_files \in SUBSET Files
    /\ absolute_paths \in SUBSET Files
    /\ pc = "start"
    /\ processed_files_to_check = <<>>
    /\ units = <<>>
    /\ result = None
    /\ extracted = {}
    /\ resolved = {}
    /\ failed = FALSE
    /\ reductions = 0
    /\ IdlePackSet
    /\ IdleLedger
    /\ IdlePackageNames

NextReferences ==
    ObtainExperimental \/ ObtainZeitwerk \/ Fold \/ ShortCircuit \/ Reduce \/ Return

SpecReferences == InitReferences /\ [][NextReferences]_vars

----------------------------------------------------------------------------
\* PackageNames

DefaultPackName == <<46>>            \* "."

RECURSIVE InsertName(_, _)
InsertName(sorted, name) ==
    IF sorted = <<>> THEN <<name>>
    ELSE IF StrCmp(Head(sorted), name) = 1 THEN <<name>> \o sorted
    ELSE <<Head(sorted)>> \o InsertName(Tail(sorted), name)

RECURSIVE SortNames(_)
\* Vec::sort on strings: ascending byte order.
SortNames(unsorted) ==
    IF unsorted = <<>> THEN <<>>
    ELSE InsertName(SortNames(SubSeq(unsorted, 1, Len(unsorted) - 1)),
                    unsorted[Len(unsorted)])

\* str::contains: pattern occurs in text as a contiguous substring.
Contains(text, pattern) ==
    \E start \in 0..(Len(text) - Len(pattern)) :
        SubSeq(text, start + 1, start + Len(pattern)) = pattern

RECURSIVE FindPackNameFrom(_, _, _, _)
\* The loop of find_pack_name over the remaining names, with the loop's two
\* variables pack_name and containing.
FindPackNameFrom(remaining, file_path, best, containing) ==
    IF remaining = <<>> THEN best
    ELSE LET pn == Head(remaining)
         IN  IF Contains(file_path, pn)
             THEN IF Len(pn) > Len(best)
                  THEN FindPackNameFrom(Tail(remaining), file_path, pn, TRUE)
                  ELSE FindPackNameFrom(Tail(remaining), file_path, best,
                                        containing)
             ELSE IF containing
                  THEN best
                  ELSE FindPackNameFrom(Tail(remaining), file_path, best,
                                        containing)

\* PackageNames::find_pack_name
find_pack_name(sorted_names, file_path) ==
    Some(FindPackNameFrom(sorted_names, file_path, DefaultPackName, FALSE))

\* PackageNames::new(config)
New ==
    /\ built
    /\ names = None
    /\ names' = Some(SortNames([i \in DOMAIN packs |-> packs[i].name]))
    /\ name_query' = None
    /\ name_answer' = None
    /\ UNCHANGED <<packSetVars, ledgerVars, referenceVars>>

\* A call of find_pack_name from extra_reference_fields_fn; it leaves the
\* names as they are.
FindPackName ==
    /\ names # None
    /\ name_query = None
    /\ \E relative_file \in RelativeFilePaths :
         /\ name_query' = Some(JoinPath(relative_file))
         /\ name_answer' = find_pack_name(names[1], JoinPath(relative_file))
    /\ UNCHANGED <<names, packSetVars, ledgerVars, referenceVars>>

NextPackageNames == Build \/ New \/ FindPackName

SpecPackageNames == InitPackSet /\ [][NextPackageNames]_vars

----------------------------------------------------------------------------
\* Vocabulary of the registry claims.

\* A pack's root directory: its relative path below the absolute root.
RootDir(pack) == AbsoluteRoot \o pack.relative_path

\* path is root itself or lies below it, on whole components.
LiesUnder(path, root) ==
    /\ Len(root) <= Len(path)
    /\ \A i \in 1..Len(root) : path[i] = root[i]

\* root directory of q strictly inside the root directory of p
NestedIn(q, p) ==
    /\ LiesUnder(RootDir(q), RootDir(p))
    /\ RootDir(q) # RootDir(p)

NameIsRelativePath(pack) == pack.name = JoinPath(pack.relative_path)

Answered == built /\ file_query # None
Query == file_query[1]

\* The packs of the registry whose root directory holds the queried file.
Owners == {i \in DOMAIN packs : LiesUnder(Query, RootDir(packs[i]))}

\* C1 (as stated): in a built registry a pack Q nested in a pack P comes
\* before P, and for_file on a path under Q's root returns Q's name.
C1_NestedReturnsQ ==
    built =>
        \A i, j \in DOMAIN packs :
            (/\ NameIsRelativePath(packs[i])
             /\ NameIsRelativePath(packs[j])
             /\ NestedIn(packs[j], packs[i]))
            => /\ j < i
               /\ (Answered /\ LiesUnder(Query, RootDir(packs[j])))
                      => file_answer = Some(packs[j].name)

\* C1 (amended): a pack Q nested in a pack P comes before P, and for_file
\* on a path under Q's root returns the name of the most deeply nested pack
\* whose root holds the path (Q, or a pack nested in Q), never P's name.
C1_NestedBeforeAncestor ==
    built =>
        \A i, j \in DOMAIN packs :
            (/\ NameIsRelativePath(packs[i])
             /\ NameIsRelativePath(packs[j])
             /\ NestedIn(packs[j], packs[i]))
            => /\ j < i
               /\ (Answered /\ LiesUnder(Query, RootDir(packs[j])))
                      => /\ file_answer # Some(packs[i].name)
                         /\ \E k \in Owners :
                              /\ file_answer = Some(packs[k].name)
                              /\ LiesUnder(RootDir(packs[k]), RootDir(packs[j]))
                              /\ \A m \in Owners :
                                   Len(RootDir(packs[m])) <= Len(RootDir(packs[k]))

\* Three packs nested in one another, queried below the innermost.
C1_Witness ==
    /\ Answered
    /\ \E i, j, k \in DOMAIN packs :
         /\ NestedIn(packs[j], packs[i])
         /\ NestedIn(packs[k], packs[j])
         /\ LiesUnder(Query, RootDir(packs[k]))
         /\ file_answer = Some(packs[k].name)

\* C2: for_file names a pack only if that pack's root directory is a prefix
\* of the path on whole directory components.
C2_PrefixOnComponents ==
    Answered =>
        \A n \in Range(file_answer) :
            \E i \in DOMAIN packs :
                /\ packs[i].name = n
                /\ LiesUnder(Query, RootDir(packs[i]))

\* The text of the queried path starts with the text of a pack's root, the
\* pack's root is no component prefix of it, and the pack is not named.
TextStartsWith(s, t) == Len(t) <= Len(s) /\ SubSeq(s, 1, Len(t)) = t
C2_Witness ==
    /\ Answered
    /\ \E i \in DOMAIN packs :
         /\ TextStartsWith(JoinPath(Query), JoinPath(RootDir(packs[i])))
         /\ ~LiesUnder(Query, RootDir(packs[i]))
         /\ file_answer # Some(packs[i].name)
         /\ \A j \in DOMAIN packs : packs[j].name = packs[i].name => j = i

\* C3: for_file returns None exactly for the paths under no pack's root.
C3_NoneIffNoOwner ==
    Answered => (file_answer = None <=> Owners = {})

C3_Witness ==
    /\ Answered
    /\ packs # <<>>
    /\ Owners = {}
    /\ file_answer = None

\* C4: the registry holds at most one pack per name, and the sequence and
\* the name index hold exactly the same packs.
C4_DedupByName ==
    built =>
        /\ \A i, j \in DOMAIN packs : packs[i].name = packs[j].name => i = j
        /\ Range(packs) = {indexed_packs[n] : n \in DOMAIN indexed_packs}

\* C5: every iteration order of the input set yields the pack sequence that
\* was built, and that sequence is sorted by descending name length, then
\* ascending name.
SortedByLengthThenName(s) ==
    \A i, j \in DOMAIN s :
        i < j => \/ Len(s[i].name) > Len(s[j].name)
                 \/ /\ Len(s[i].name) = Len(s[j].name)
                    /\ StrCmp(s[i].name, s[j].name) <= 0
C5_Deterministic ==
    built =>
        /\ SortedByLengthThenName(packs)
        /\ \A iteration \in Perms(input_packs) : SortedBy(iteration) = packs

----------------------------------------------------------------------------
\* Vocabulary of the ledger claim.

GroupOf(entry) == package_todo[entry[1]][entry[2]]
PairsOf(entry) ==
    Len(GroupOf(entry).violation_types) * Len(GroupOf(entry).files)

RECURSIVE SumOfPairs(_)
SumOfPairs(S) ==
    IF S = {} THEN 0
    ELSE LET x == CHOOSE y \in S : TRUE
         IN  PairsOf(x) + SumOfPairs(S \ {x})

\* How often id occurs in the sequence v.
Occurrences(v, id) == Cardinality({n \in DOMAIN v : v[n] = id})

\* The (entry, position of a violation type, position of a file) triples of
\* the ledger that a given identifier stands for.
SourcesOf(id) ==
    {t \in UNION {{<<e, i, j>> : i \in DOMAIN GroupOf(e).violation_types,
                                 j \in DOMAIN GroupOf(e).files} :
                     e \in Entries(package_todo)} :
        /\ id.defining_pack_name = t[1][1]
        /\ id.constant_name = t[1][2]
        /\ id.violation_type = GroupOf(t[1]).violation_types[t[2]]
        /\ id.file = GroupOf(t[1]).files[t[3]]}

\* C6: all_violations returns one identifier per (violation type, file)
\* position pair of every constant's group and nothing else; their number is
\* the sum over the constants of |violation_types| x |files|; each carries
\* the pack's own name as referencing pack and the ledger key as defining
\* pack.
C6_FullExpansion ==
    violations # None =>
        LET v == violations[1]
        IN  /\ Len(v) = SumOfPairs(Entries(package_todo))
            /\ \A n \in DOMAIN v :
                 /\ v[n].referencing_pack_name = pack_name
                 /\ v[n].defining_pack_name \in DOMAIN package_todo
                 /\ Occurrences(v, v[n]) = Cardinality(SourcesOf(v[n]))
            /\ \A e \in Entries(package_todo) :
                 \A i \in DOMAIN GroupOf(e).violation_types :
                     \A j \in DOMAIN GroupOf(e).files :
                         \E n \in DOMAIN v :
                             /\ v[n].defining_pack_name = e[1]
                             /\ v[n].constant_name = e[2]
                             /\ v[n].violation_type = GroupOf(e).violation_types[i]
                             /\ v[n].file = GroupOf(e).files[j]

\* A ledger with a constant of two violation types and one file and a
\* constant of one violation type and two files, flattened to four
\* identifiers.
C6_Witness ==
    /\ violations # None
    /\ Len(violations[1]) = 4
    /\ \E e, f \in Entries(package_todo) :
         /\ e # f
         /\ Len(GroupOf(e).violation_types) = 2 /\ Len(GroupOf(e).files) = 1
         /\ Len(GroupOf(f).violation_types) = 1 /\ Len(GroupOf(f).files) = 2
         /\ GroupOf(f).files[1] # GroupOf(f).files[2]

----------------------------------------------------------------------------
\* Vocabulary of the pipeline claims.

Done == pc = "done"
Returned == result[1]

RECURSIVE ReferencesOf(_)
\* The concatenation of the resolved References of the given files.
ReferencesOf(files) ==
    IF files = <<>> THEN <<>>
    ELSE ResolveAll(UnresolvedReferences(Head(files)), Head(files), <<>>)
         \o ReferencesOf(Tail(files))

IsPermutation(s, t) ==
    /\ Len(s) = Len(t)
    /\ \A x \in Range(s) \cup Range(t) : Occurrences(s, x) = Occurrences(t, x)

\* C7: when an extraction or a resolution has failed the run returns an
\* error and no Reference list; a Reference list is returned only when
\* nothing failed and every file to check was resolved.
C7_NoPartialResult ==
    Done =>
        /\ failed => Returned = Err
        /\ Returned.ok =>
             /\ ~failed
             /\ resolved = Range(processed_files_to_check)
             /\ Range(processed_files_to_check) \subseteq extracted

\* A run that failed after another file had been resolved.
C7_Witness ==
    /\ Done
    /\ failed
    /\ resolved # {}
    /\ Returned = Err

\* C8: a returned list is a permutation of the concatenation of the
\* resolved References of the checked files.
C8_Permutation ==
    (Done /\ Returned.ok) =>
        IsPermutation(Returned.refs, ReferencesOf(processed_files_to_check))

\* Two work units were combined, file 2 was folded before file 1, and the
\* three References of the two files were returned.
C8_Witness ==
    /\ Done
    /\ Returned.ok
    /\ reductions > 0
    /\ processed_files_to_check = <<2, 1>>
    /\ Len(Returned.refs) = 3
    /\ Returned.refs[1].relative_referencing_file = 2

\* C10: under either strategy a successful run has obtained a Processed
\* File for every input path and has resolved exactly the input paths.
C10_ChecksInputSet ==
    (Done /\ Returned.ok) =>
        /\ absolute_paths \subseteq extracted
        /\ resolved = absolute_paths

----------------------------------------------------------------------------
\* Vocabulary of the PackageNames claim.

\* The names longer than the one-byte default that occur in the path.
Occurring(sorted_names, file_path) ==
    {i \in DOMAIN sorted_names :
        /\ Contains(file_path, sorted_names[i])
        /\ Len(sorted_names[i]) > Len(DefaultPackName)}

\* C9: find_pack_name returns the longest pack name that occurs as a
\* substring of the path, the first such in sorted order on ties, whatever
\* names sit between the occurring ones (stated for the paths in which a name
\* longer than the one-byte default "." occurs).
C9_LongestContained ==
    (name_query # None /\ Occurring(names[1], name_query[1]) # {}) =>
        \E i \in Occurring(names[1], name_query[1]) :
            /\ name_answer = Some(names[1][i])
            /\ \A j \in Occurring(names[1], name_query[1]) :
                 \/ Len(names[1][j]) < Len(names[1][i])
                 \/ (Len(names[1][j]) = Len(names[1][i]) /\ i <= j)

====
